---- MODULE Spec2Model ----
(***************************************************************************)
(* A model of the Deep CFR self-play trainer (deep_cfr.py) and of the hand *)
(* strength estimate it encodes states with (game_env.py).                 *)
(*                                                                         *)
(* Numbers.  The program computes in floating point; the model computes    *)
(* the same expressions exactly:                                           *)
(*   - probabilities, reach probabilities and strategy counts are          *)
(*     rationals <<n, d>> in lowest terms, d > 0; <<0, 0>> is NaN and      *)
(*     <<1, 0>>, <<-1, 0>> are the infinities a division by zero gives;    *)
(*   - a regret is a sum of terms c / (s + 1e-8) (line 180 of deep_cfr.py) *)
(*     and is kept as the function s |-> c, with 1e-8 left symbolic;       *)
(*   - epsilon is a decimal fraction of unbounded precision, a sequence of *)
(*     base-1000 limbs after the point (0.15 is <<150>>).                  *)
(* Float rounding is therefore outside the model.                          *)
(***************************************************************************)
EXTENDS Integers, Sequences, FiniteSets, Bags, TLC

(***************************************************************************)
(* Bounds of the model.                                                    *)
(***************************************************************************)
\* iterations argument of train() in the specification Spec
MaxIterations == 2
\* iterations argument of train() in the specification SpecEps
EpsIterations == 560
\* decisions (of both players together) the game allows in one hand
MaxDecisions == 2
\* maxlen of the replay buffer (1000000 in the program, scaled down)
Capacity == 2

(***************************************************************************)
(* Rational arithmetic.                                                    *)
(***************************************************************************)
Abs(x) == IF x < 0 THEN -x ELSE x

RECURSIVE GCD(_, _)
GCD(a, b) == IF b = 0 THEN a ELSE GCD(b, a % b)

Sign(x) == IF x < 0 THEN -1 ELSE IF x > 0 THEN 1 ELSE 0

\* n / d as IEEE division gives it: x/0 is an infinity, 0/0 is NaN
Rat(n, d) ==
    IF d = 0 THEN <<Sign(n), 0>>
    ELSE LET g == GCD(Abs(n), Abs(d))
         IN  <<Sign(d) * (n \div g), Abs(d) \div g>>

Zero == <<0, 1>>
One == <<1, 1>>
NaN == <<0, 0>>

IsFinite(x) == x[2] # 0
IsNaN(x) == x = NaN

RAdd(x, y) ==
    IF IsFinite(x) /\ IsFinite(y) THEN Rat(x[1] * y[2] + y[1] * x[2], x[2] * y[2])
    ELSE IF IsNaN(x) \/ IsNaN(y) \/ (~IsFinite(x) /\ ~IsFinite(y) /\ x # y) THEN NaN
    ELSE IF IsFinite(x) THEN y ELSE x

RNeg(x) == <<-x[1], x[2]>>

RSub(x, y) == RAdd(x, RNeg(y))

RMul(x, y) ==
    IF IsFinite(x) /\ IsFinite(y) THEN Rat(x[1] * y[1], x[2] * y[2])
    ELSE <<Sign(x[1]) * Sign(y[1]), 0>>

RDiv(x, y) ==
    IF IsFinite(x) /\ IsFinite(y) THEN Rat(x[1] * y[2], x[2] * y[1])
    ELSE IF IsFinite(x) /\ ~IsNaN(y) THEN Zero
    ELSE IF IsFinite(y) /\ ~IsNaN(x) THEN <<x[1] * Sign(y[1]), 0>>
    ELSE NaN

RLess(x, y) == IsFinite(x) /\ IsFinite(y) /\ x[1] * y[2] < y[1] * x[2]

(***************************************************************************)
(* Vectors over the five action slots (np.zeros(5), PokerNet output_dim).  *)
(***************************************************************************)
Actions == 0 .. 4

RECURSIVE RSumOver(_, _)
RSumOver(v, S) ==
    IF S = {} THEN Zero
    ELSE LET a == CHOOSE x \in S : TRUE
         IN  RAdd(v[a], RSumOver(v, S \ {a}))

\* ndarray.sum()
VSum(v) == RSumOver(v, DOMAIN v)

ZeroVec == [a \in Actions |-> Zero]

(***************************************************************************)
(* Regret numbers: finite sums of c / (s + 1e-8), s and c rational, kept   *)
(* as the function s |-> c over the s with c # 0.                          *)
(***************************************************************************)
QZero == [s \in {} |-> Zero]

\* num / (den + 1e-8)
EpsSafeQuot(num, den) == IF num = Zero THEN QZero ELSE [s \in {den} |-> num]

QGet(q, s) == IF s \in DOMAIN q THEN q[s] ELSE Zero

QAdd(p, q) ==
    LET S == {s \in DOMAIN p \cup DOMAIN q : RAdd(QGet(p, s), QGet(q, s)) # Zero}
    IN  [s \in S |-> RAdd(QGet(p, s), QGet(q, s))]

QScale(q, c) ==
    IF c = Zero THEN QZero ELSE [s \in DOMAIN q |-> RMul(q[s], c)]

QNeg(q) == [s \in DOMAIN q |-> RNeg(q[s])]

QSub(p, q) == QAdd(p, QNeg(q))

QZeroVec == [a \in Actions |-> QZero]

QVecAdd(u, v) == [a \in Actions |-> QAdd(u[a], v[a])]

QVecSub(u, v) == [a \in Actions |-> QSub(u[a], v[a])]

(***************************************************************************)
(* Decimal fractions in [0, 1): base-1000 limbs after the point, the most  *)
(* significant first.                                                      *)
(***************************************************************************)
Limb(a, i) == IF i <= Len(a) THEN a[i] ELSE 0

DecLess(a, b) ==
    \E i \in 1 .. (IF Len(a) > Len(b) THEN Len(a) ELSE Len(b)) :
        /\ Limb(a, i) < Limb(b, i)
        /\ \A j \in 1 .. i - 1 : Limb(a, j) = Limb(b, j)

\* max(a, b) of Python: b only when it is greater
DecMax(a, b) == IF DecLess(a, b) THEN b ELSE a

\* limbs lo..hi of a times m plus the carry cin: <<carry out>> \o limbs
\* (the lower half is computed first: its carry enters the upper half)
RECURSIVE MulRange(_, _, _, _, _)
MulRange(a, m, lo, hi, cin) ==
    IF lo = hi
    THEN LET t == a[lo] * m + cin IN <<t \div 1000, t % 1000>>
    ELSE LET mid == (lo + hi) \div 2
             low == MulRange(a, m, mid + 1, hi, cin)
         IN  IF low[1] < 0 THEN <<>>
             ELSE MulRange(a, m, lo, mid, low[1]) \o Tail(low)

\* a * b for a one-limb b (0.995 is <<995>>): exact, one limb longer
DecMul(a, b) ==
    IF a = <<>> \/ b = <<>> THEN <<>> ELSE MulRange(a, b[1], 1, Len(a), 0)

(***************************************************************************)
(* HandProcessor (game_env.py).  A card is [rank, suit] as deuces' Card    *)
(* gives them (get_rank_int 0..12, suits compared for equality only);      *)
(* NoCard is Python's None.  Strengths are in thousandths.                 *)
(***************************************************************************)
NoCard == [rank |-> -1, suit |-> -1]

\* convert_card: ranks[rank_idx] + suits[suit_idx], a negative index
\* counting from the end of the list; IndexError gives None
convert_card(idx) ==
    IF idx = 0 THEN NoCard
    ELSE LET rank_idx == (idx - 1) \div 4
             suit_idx == (idx - 1) % 4
         IN  IF rank_idx \in 0 .. 12 THEN [rank |-> rank_idx, suit |-> suit_idx]
             ELSE IF rank_idx \in -13 .. -1
                  THEN [rank |-> rank_idx + 13, suit |-> suit_idx]
             ELSE NoCard

\* [f(x) for x in s if x > 0]
RECURSIVE ConvertPositive(_)
ConvertPositive(s) ==
    IF s = <<>> THEN <<>>
    ELSE IF Head(s) > 0 THEN <<convert_card(Head(s))>> \o ConvertPositive(Tail(s))
    ELSE ConvertPositive(Tail(s))

Raised == [raised |-> TRUE, value |-> 0]
Returned(v) == [raised |-> FALSE, value |-> v]

\* the two lowest of the ranks: sorted(...)[0], sorted(...)[1]
LowestRank(hole) ==
    CHOOSE r \in {hole[i].rank : i \in DOMAIN hole} :
        \A i \in DOMAIN hole : r <= hole[i].rank
SecondRank(hole) ==
    LET i0 == CHOOSE i \in DOMAIN hole : hole[i].rank = LowestRank(hole)
    IN  CHOOSE r \in {hole[i].rank : i \in DOMAIN hole \ {i0}} :
            \A i \in DOMAIN hole \ {i0} : r <= hole[i].rank

\* the estimate with suitedness tested before the connector
estimate_preflop_strength_suited_first(hole) ==
    IF \E i \in DOMAIN hole : hole[i] = NoCard THEN Raised
    ELSE IF Len(hole) < 2 THEN Raised
    ELSE LET suited == hole[1].suit = hole[2].suit
             r0 == LowestRank(hole)
             r1 == SecondRank(hole)
         IN  IF r0 = r1 THEN Returned(900)
             ELSE IF suited THEN Returned(500)
             ELSE IF r1 - r0 = 1 THEN Returned(600)
             ELSE Returned(400)

\* _estimate_preflop_strength: Card.get_rank_int(None) raises TypeError,
\* hole[0] and hole[1] raise IndexError on a shorter list
estimate_preflop_strength(hole) ==
    IF \E i \in DOMAIN hole : hole[i] = NoCard THEN Raised
    ELSE IF Len(hole) < 2 THEN Raised
    ELSE LET suited == hole[1].suit = hole[2].suit
             r0 == LowestRank(hole)
             r1 == SecondRank(hole)
         IN  IF r0 = r1 THEN Returned(900)
             ELSE IF r1 - r0 = 1 THEN (IF suited THEN Returned(700) ELSE Returned(600))
             ELSE IF suited THEN Returned(500)
             ELSE Returned(400)

\* 1 - get_five_card_rank_percentage(score) for the scores deuces can give
\* (score / 7462, score in 1..7462), sampled
PostflopValues == {0, 304, 875}

\* Evaluator.evaluate(board, hole): hands of 5, 6 or 7 cards only (KeyError
\* otherwise), TypeError on None; a repeated card may raise or score
evaluate_strengths(board, hole) ==
    LET cards == hole \o board
    IN  IF \E i \in DOMAIN cards : cards[i] = NoCard THEN {Raised}
        ELSE IF Len(cards) \notin {5, 6, 7} THEN {Raised}
        ELSE IF \E i, j \in DOMAIN cards : i # j /\ cards[i] = cards[j]
             THEN {Raised} \cup {Returned(v) : v \in PostflopValues}
        ELSE {Returned(v) : v \in PostflopValues}

\* the body of get_strength's try block (lines 132-143): what it can do
strength_outcomes(hole_indices, board_indices) ==
    LET hole == ConvertPositive(hole_indices)
        board == ConvertPositive(board_indices)
    IN  IF Len(board) < 3 THEN {estimate_preflop_strength(hole)}
        ELSE evaluate_strengths(board, hole)

\* the value get_strength returns: every exception is caught and gives 0.0
StrengthValue(outcome) == IF outcome.raised THEN 0 ELSE outcome.value

\* get_strength: the values the call can return (a single one before the
\* flop)
get_strength(hole_indices, board_indices) ==
    {StrengthValue(o) : o \in strength_outcomes(hole_indices, board_indices)}

(***************************************************************************)
(* The game (PettingZoo texas_holdem_no_limit_v6) is outside the           *)
(* repository: the model takes what it hands to the trainer from the sets  *)
(* below.                                                                  *)
(***************************************************************************)
Agents == {"player_0", "player_1"}

\* self.training_agent
training_agent == "player_0"

Vec(t) == [a \in Actions |-> t[a + 1]]

\* observations: the indices of the card flags that are 1 (observation[:52])
\* and the two chip entries (observation[52], observation[53])
Observations ==
    { [cards |-> {0, 1}, chips |-> <<1, 2>>],
      [cards |-> {0, 28}, chips |-> <<2, 2>>] }

\* action masks, the all-zero mask among them
Masks == { Vec(<<1, 1, 0, 0, 0>>), Vec(<<0, 0, 0, 0, 0>>) }

\* terminal rewards of player_0 (player_1 gets the opposite)
Rewards == {-1, 2}

(***************************************************************************)
(* DeepCFR.encode_state / encode_state_raw (features in thousandths).      *)
(***************************************************************************)
\* round(x, digits) on a value in thousandths, to a multiple of unit
\* (half to even)
RoundTo(x, unit) ==
    LET q == x \div unit
        r == x % unit
    IN  IF 2 * r < unit THEN q * unit
        ELSE IF 2 * r > unit THEN (q + 1) * unit
        ELSE IF q % 2 = 0 THEN q * unit ELSE (q + 1) * unit

\* np.where(hole_mask == 1)[0] + 1: ascending
RECURSIVE Ascending(_)
Ascending(S) ==
    IF S = {} THEN <<>>
    ELSE LET m == CHOOSE x \in S : \A y \in S : x <= y
         IN  <<m + 1>> \o Ascending(S \ {m})

\* encode_state: the feature pairs the call can return
encode_state(observation, board_indices) ==
    LET hole_indices == Ascending(observation.cards)
        total_pot == 1000 * (100 - (observation.chips[1] + observation.chips[2]))
    IN  { <<RoundTo(hand_strength, 10), RoundTo(total_pot, 100)>> :
            hand_strength \in get_strength(hole_indices, board_indices) }

\* tuple(state_tensor.cpu().numpy().round(2))
StateKey(state_tensor) == <<RoundTo(state_tensor[1], 10), RoundTo(state_tensor[2], 10)>>

StateTensors == UNION {encode_state(o, <<>>) : o \in Observations}

(***************************************************************************)
(* The networks.  train() never updates them (lines 273-277 are commented  *)
(* out), so each is a fixed function from the state tensor to its softmax  *)
(* output, given as integer weights w: probs[a] = w[a] / sum(w); a weight  *)
(* 0 is a probability that underflowed.                                    *)
(***************************************************************************)
NetA ==
    [t \in StateTensors |->
        IF t[1] = 900 THEN Vec(<<1, 3, 0, 0, 0>>) ELSE Vec(<<1, 0, 0, 0, 0>>)]
NetB ==
    [t \in StateTensors |->
        IF t[1] = 900 THEN Vec(<<1, 2, 1, 0, 0>>) ELSE Vec(<<0, 0, 0, 1, 0>>)]
\* the networks __init__ may have built (lines 33-35)
StrategyNets == {NetA}
OpponentNets == {NetB}

RECURSIVE IntSum(_, _)
IntSum(w, S) ==
    IF S = {} THEN 0
    ELSE LET a == CHOOSE x \in S : TRUE IN w[a] + IntSum(w, S \ {a})

\* F.softmax(logits, dim=-1)
Softmax(w) == [a \in Actions |-> Rat(w[a], IntSum(w, Actions))]

(***************************************************************************)
(* DeepCFR.get_action_probs and the exploration branch of _cfr_iteration.  *)
(***************************************************************************)
MaskVec(legal_mask) == [a \in Actions |-> Rat(legal_mask[a], 1)]

\* legal_mask / legal_mask.sum()
UniformLegal(legal_mask) ==
    LET total == VSum(MaskVec(legal_mask))
    IN  [a \in Actions |-> RDiv(MaskVec(legal_mask)[a], total)]

\* the softmax output returned as it is, the mask not applied
get_action_probs_unmasked(probs, legal_mask) == probs

\* get_action_probs without the fallback of lines 98-99
get_action_probs_no_fallback(probs, legal_mask) ==
    IF \A a \in Actions : legal_mask[a] = 0 THEN MaskVec(legal_mask)
    ELSE LET legal_probs == [a \in Actions |-> RMul(probs[a], MaskVec(legal_mask)[a])]
             sum_probs == VSum(legal_probs)
         IN  [a \in Actions |-> RDiv(legal_probs[a], sum_probs)]

get_action_probs(probs, legal_mask) ==
    IF \A a \in Actions : legal_mask[a] = 0 THEN MaskVec(legal_mask)
    ELSE LET legal_probs == [a \in Actions |-> RMul(probs[a], MaskVec(legal_mask)[a])]
             sum_probs == VSum(legal_probs)
         IN  IF sum_probs = Zero THEN UniformLegal(legal_mask)
             ELSE [a \in Actions |-> RDiv(legal_probs[a], sum_probs)]

\* line 141: the strategy of the training player when it explores
ExploreStrategy(legal_mask) == UniformLegal(legal_mask)

\* np.random.choice(len(p), p=p) raises ValueError on NaN, on a negative
\* entry and on a sum other than 1; otherwise it draws an a with p[a] > 0
ChoiceRaises(p) ==
    \/ \E a \in Actions : ~IsFinite(p[a]) \/ RLess(p[a], Zero)
    \/ VSum(p) # One
Choices(p) == IF ChoiceRaises(p) THEN {} ELSE {a \in Actions : RLess(Zero, p[a])}

(***************************************************************************)
(* State.                                                                  *)
(***************************************************************************)
VARIABLES
    \* DeepCFR fields
    iterations, epsilon, advantage_memory, cumulative_regrets,
    cumulative_strategy, strategy_net, opponent_net,
    \* PokerEnv.community_card_indices, read by encode_state
    community_card_indices,
    \* the other fields of PokerEnv: current_round, community_cards,
    \* pot_size, history
    poker_env,
    \* the checkpoints _save_checkpoint has written, oldest first
    checkpoints,
    \* the game behind self.env.env: agents left, agent_selection, whether
    \* the hand is over, the rewards, the decisions taken in the hand
    env,
    \* train(): its iterations argument and where control is
    train_iterations, save_interval, pc,
    \* locals of _cfr_iteration; decision holds those of the loop body
    history, rp_self, rp_opp, final_rewards, decision,
    \* _update_regrets: index of the next record of history (from 1)
    idx,
    \* history variables: the decisions of the hand so far (agent and the
    \* probability of its chosen action); every record _update_regrets has
    \* processed, with the reward and the change of the regret table it
    \* made; what the replay buffer, the visits and the records processed
    \* were when the iteration began; 0.15 * 0.995^(iterations completed)
    trace, processed, begin, eps_pow,
    \* call frames of the functions checked on their own
    policy_call, strength_call, encode_call, net_call

trainerVars ==
    <<iterations, epsilon, advantage_memory, cumulative_regrets,
      cumulative_strategy, strategy_net, opponent_net, community_card_indices,
      poker_env, checkpoints>>
handVars == <<env, history, rp_self, rp_opp, final_rewards, decision, idx>>
ghostVars == <<trace, processed, begin, eps_pow>>
callVars == <<policy_call, strength_call, encode_call, net_call>>
trainArgs == <<train_iterations, save_interval>>
vars == <<trainerVars, handVars, ghostVars, callVars, trainArgs, pc>>

\* lines 38-40
epsilon_init == <<150>>
epsilon_decay == <<995>>
min_epsilon == <<10>>

\* the locals of the loop body; action -1 is None; board_indices is the
\* board encode_state gave to get_strength (line 66), public the public
\* cards of the game at that moment
NoDecision == [agent |-> "none", done |-> FALSE, legal_mask |-> Vec(<<0, 0, 0, 0, 0>>),
               strategy |-> ZeroVec, action |-> -1,
               board_indices |-> <<>>, public |-> <<>>]
NoEnv == [agents |-> {}, agent_selection |-> "none", over |-> FALSE,
          rewards |-> [a \in Agents |-> 0], decisions |-> 0, public |-> <<>>]

\* the game after its reset(): nobody has acted, no public card is dealt
NewGame(first) ==
    [agents |-> Agents, agent_selection |-> first, over |-> FALSE,
     rewards |-> [a \in Agents |-> 0], decisions |-> 0, public |-> <<>>]

\* game.get_pot_size(): the blinds and a chip for every decision taken
get_pot_size(game) == 3 + game.decisions

\* game.round_num: the betting round the public cards belong to
round_num(game) == IF Len(game.public) < 3 THEN 0 ELSE Len(game.public) - 2

\* PokerEnv.__init__ (lines 13-16); reset() is the first to set the
\* attribute community_cards
NewPokerEnv ==
    [current_round |-> 0, community_cards |-> "unset", pot_size |-> 0,
     history |-> <<>>]

\* PokerEnv.reset (lines 25-29) after the game's own reset: the fields it
\* assigns, and pot_size as _get_obs leaves it (line 66)
reset(wrapper, game) ==
    [wrapper EXCEPT !.current_round = 0, !.community_cards = <<>>,
                    !.history = <<>>, !.pot_size = get_pot_size(game)]

\* the save_interval arguments of train()
SaveIntervals == {1, 2}
IdleCall == [pc |-> "idle"]

\* the dictionaries' contents: defaultdict creates an entry when a missing
\* key is read
RegretsOf(table, key) == IF key \in DOMAIN table THEN table[key] ELSE QZeroVec
StrategyOf(table, key) ==
    IF key \in DOMAIN table THEN table[key] ELSE [counts |-> ZeroVec, visits |-> 0]

\* sum of the visits over the keys of the strategy table
RECURSIVE VisitsOver(_, _)
VisitsOver(table, K) ==
    IF K = {} THEN 0
    ELSE LET k == CHOOSE x \in K : TRUE
         IN  table[k].visits + VisitsOver(table, K \ {k})
TotalVisits(table) == VisitsOver(table, DOMAIN table)

\* DeepCFR.__init__ and PokerEnv.__init__
InitTrainer ==
    /\ iterations = 0
    /\ epsilon = epsilon_init
    /\ advantage_memory = <<>>
    /\ cumulative_regrets = [k \in {} |-> QZeroVec]
    /\ cumulative_strategy = [k \in {} |-> [counts |-> ZeroVec, visits |-> 0]]
    /\ strategy_net \in StrategyNets
    /\ opponent_net \in OpponentNets
    /\ community_card_indices = <<>>
    /\ poker_env = NewPokerEnv
    /\ checkpoints = <<>>
    /\ env = NoEnv
    /\ history = <<>>
    /\ rp_self = One
    /\ rp_opp = One
    /\ final_rewards = [a \in Agents |-> 0]
    /\ decision = NoDecision
    /\ idx = 1
    /\ trace = <<>>
    /\ processed = EmptyBag
    /\ begin = [memory |-> <<>>, visits |-> 0, processed |-> 0]
    /\ eps_pow = epsilon_init

Init ==
    /\ InitTrainer
    /\ train_iterations = MaxIterations
    /\ save_interval \in SaveIntervals
    /\ pc = "loop"
    /\ policy_call = IdleCall
    /\ strength_call = IdleCall
    /\ encode_call = IdleCall
    /\ net_call = IdleCall

(***************************************************************************)
(* DeepCFR.train and DeepCFR._cfr_iteration.                               *)
(***************************************************************************)
\* lines 269-270 and 108-114: the next iteration begins; reset() of the
\* game picks who acts first
BeginIteration ==
    /\ pc = "loop"
    /\ iterations < train_iterations
    /\ iterations' = iterations + 1
    /\ \E first \in Agents : env' = NewGame(first)
    /\ poker_env' = reset(poker_env, env')
    /\ history' = <<>>
    /\ rp_self' = One
    /\ rp_opp' = One
    /\ final_rewards' = [a \in Agents |-> 0]
    /\ decision' = NoDecision
    /\ idx' = 1
    /\ trace' = <<>>
    /\ begin' = [memory |-> advantage_memory,
                 visits |-> TotalVisits(cumulative_strategy),
                 processed |-> BagCardinality(processed)]
    /\ pc' = "hand"
    /\ UNCHANGED <<epsilon, advantage_memory, cumulative_regrets, cumulative_strategy,
                   strategy_net, opponent_net, community_card_indices,
                   checkpoints, processed, eps_pow, callVars, trainArgs>>

\* lines 139-153: the strategy of the acting player
DecisionStrategy(agent, explore, state_tensor, legal_mask) ==
    IF agent = training_agent
    THEN IF explore THEN ExploreStrategy(legal_mask)
         ELSE get_action_probs(Softmax(strategy_net[state_tensor]), legal_mask)
    ELSE get_action_probs(Softmax(opponent_net[state_tensor]), legal_mask)

\* random.random() < self.epsilon can be true iff epsilon > 0
CanExplore(agent) == agent = training_agent /\ DecLess(<<>>, epsilon)

\* the public cards of a hand in the order they are dealt (ids from 1)
FullBoard == <<9, 13, 17, 21, 26>>

\* the public cards after the next street is dealt: 0 -> 3 -> 4 -> 5
NextStreet(public) ==
    IF Len(public) = 0 THEN SubSeq(FullBoard, 1, 3)
    ELSE IF Len(public) < 5 THEN SubSeq(FullBoard, 1, Len(public) + 1)
    ELSE public

\* the public cards after a decision that does not end the hand: a
\* betting round closes, and the next street is dealt, only when both
\* players have acted
Deals(game) ==
    IF game.decisions + 1 >= 2 THEN {game.public, NextStreet(game.public)}
    ELSE {game.public}

\* the observation the game gives: the card flags are those of the hand
\* and of the public cards
ObservationOf(obs, public) ==
    [obs EXCEPT !.cards = @ \cup {public[i] - 1 : i \in DOMAIN public}]

\* env.step(action) of a live agent in a game of at most limit decisions:
\* a fold and the last decision the game allows end the hand; any other
\* action may end it or pass the turn
GameStepWithin(action, limit) ==
    \/ /\ action # 0
       /\ env.decisions + 1 < limit
       /\ \E next \in Agents, public \in Deals(env) :
            env' = [env EXCEPT !.agent_selection = next, !.decisions = @ + 1,
                               !.public = public]
    \/ \E r \in Rewards, next \in Agents :
            env' = [env EXCEPT !.agent_selection = next, !.decisions = @ + 1,
                               !.over = TRUE,
                               !.rewards = [a \in Agents |->
                                              IF a = training_agent THEN r ELSE -r]]

GameStep(action) == GameStepWithin(action, MaxDecisions)

\* the record taken after the reach probability is multiplied
RecordDecisionAfterReach(agent, state_tensor, strategy, action) ==
    IF agent = training_agent
    THEN /\ history' = Append(history,
                 [state_tensor |-> state_tensor, strategy |-> strategy,
                  action |-> action, rp_self |-> RMul(rp_self, strategy[action]),
                  rp_opp |-> rp_opp])
         /\ rp_self' = RMul(rp_self, strategy[action])
         /\ rp_opp' = rp_opp
    ELSE /\ history' = history
         /\ rp_self' = rp_self
         /\ rp_opp' = RMul(rp_opp, strategy[action])

\* a record for every decision, the opponent's too
RecordDecisionOfAnyAgent(agent, state_tensor, strategy, action) ==
    /\ history' = Append(history,
            [state_tensor |-> state_tensor, strategy |-> strategy,
             action |-> action, rp_self |-> rp_self, rp_opp |-> rp_opp])
    /\ rp_self' = IF agent = training_agent THEN RMul(rp_self, strategy[action]) ELSE rp_self
    /\ rp_opp' = IF agent = training_agent THEN rp_opp ELSE RMul(rp_opp, strategy[action])

\* lines 148-149 and 153: the record and the reach probabilities
RecordDecision(agent, state_tensor, strategy, action) ==
    IF agent = training_agent
    THEN /\ history' = Append(history,
                 [state_tensor |-> state_tensor, strategy |-> strategy,
                  action |-> action, rp_self |-> rp_self, rp_opp |-> rp_opp])
         /\ rp_self' = RMul(rp_self, strategy[action])
         /\ rp_opp' = rp_opp
    ELSE /\ history' = history
         /\ rp_self' = rp_self
         /\ rp_opp' = RMul(rp_opp, strategy[action])

\* lines 116-157 for an agent that is not done: one pass of the loop body,
\* in a game of at most limit decisions
DecideWithin(limit) ==
    /\ pc = "hand"
    /\ env.agents # {}
    /\ ~env.over
    /\ LET agent == env.agent_selection IN
       \E obs \in Observations, legal_mask \in Masks, explore \in BOOLEAN :
         /\ explore => CanExplore(agent)
         /\ \E state_tensor \in encode_state(ObservationOf(obs, env.public),
                                             community_card_indices) :
              LET strategy == DecisionStrategy(agent, explore, state_tensor, legal_mask)
              IN  IF ChoiceRaises(strategy)
                  THEN /\ decision' = [agent |-> agent, done |-> FALSE,
                                       board_indices |-> community_card_indices,
                                       public |-> env.public,
                                       legal_mask |-> legal_mask,
                                       strategy |-> strategy, action |-> -1]
                       /\ pc' = "failed"
                       /\ UNCHANGED <<env, history, rp_self, rp_opp, trace>>
                  ELSE \E action \in Choices(strategy) :
                       /\ decision' = [agent |-> agent, done |-> FALSE,
                                       board_indices |-> community_card_indices,
                                       public |-> env.public,
                                       legal_mask |-> legal_mask,
                                       strategy |-> strategy, action |-> action]
                       /\ RecordDecision(agent, state_tensor, strategy, action)
                       /\ trace' = Append(trace, [agent |-> agent, p |-> strategy[action]])
                       /\ GameStepWithin(action, limit)
                       /\ pc' = "hand"
    /\ UNCHANGED <<trainerVars, final_rewards, idx, processed, begin, eps_pow,
                   callVars, trainArgs>>

Decide == DecideWithin(MaxDecisions)

\* lines 116-128 and 157 for an agent that is done: its reward is taken and
\* step(None) removes it; when no agent is left the loop ends and
\* _update_regrets is called (line 169)
DeadStep ==
    /\ pc = "hand"
    /\ env.agents # {}
    /\ env.over
    /\ LET agent == env.agent_selection
           left == env.agents \ {agent}
       IN  /\ final_rewards' = [final_rewards EXCEPT ![agent] = @ + env.rewards[agent]]
           /\ decision' = [NoDecision EXCEPT !.agent = agent, !.done = TRUE]
           /\ env' = [env EXCEPT !.agents = left,
                                 !.agent_selection =
                                     IF left = {} THEN "none" ELSE CHOOSE a \in left : TRUE]
           /\ pc' = IF left = {} THEN "update" ELSE "hand"
    /\ idx' = 1
    /\ UNCHANGED <<trainerVars, history, rp_self, rp_opp, ghostVars,
                   callVars, trainArgs>>

(***************************************************************************)
(* DeepCFR._update_regrets.                                                *)
(***************************************************************************)
\* line 180: player_reward * (rp_opp / (rp_self + 1e-8))
cf_value(player_reward, rec) ==
    QScale(EpsSafeQuot(rec.rp_opp, rec.rp_self), Rat(player_reward, 1))

\* a regret that is weighted by the iteration counter
immediate_regret_weighted(player_reward, rec) ==
    [a \in Actions |->
        IF a = rec.action
        THEN QScale(cf_value(player_reward, rec),
                    RMul(Rat(iterations, 1), RSub(One, rec.strategy[rec.action])))
        ELSE QScale(QNeg(cf_value(player_reward, rec)),
                    RMul(Rat(iterations, 1), rec.strategy[a]))]

\* lines 189-193
immediate_regret(player_reward, rec) ==
    [a \in Actions |->
        IF a = rec.action
        THEN QScale(cf_value(player_reward, rec), RSub(One, rec.strategy[rec.action]))
        ELSE QScale(QNeg(cf_value(player_reward, rec)), rec.strategy[a])]

\* an assignment in place of the +=
AddRegretOverwriting(table, key, regret) ==
    [k \in DOMAIN table \cup {key} |-> IF k = key THEN regret ELSE table[k]]

\* line 198: self.cumulative_regrets[state_key] += immediate_regret
AddRegret(table, key, regret) ==
    [k \in DOMAIN table \cup {key} |->
        IF k = key THEN QVecAdd(RegretsOf(table, key), regret) ELSE table[k]]

\* a deque that drops the entry being appended when it is full
DequeAppendDropNewest(memory, entry) ==
    IF Len(memory) < Capacity THEN Append(memory, entry) ELSE memory

\* deque(maxlen=Capacity).append: a full deque drops its first entry
DequeAppend(memory, entry) ==
    IF Len(memory) < Capacity THEN Append(memory, entry)
    ELSE Append(Tail(memory), entry)

\* line 200: the entry holds the state and the array object of the table
\* (no copy is made), named here by the key it is stored under
MemoryEntry(rec) == [state |-> rec.state_tensor, regrets_of |-> StateKey(rec.state_tensor)]

\* the regrets a replay-buffer entry shows when it is read
EntryRegrets(entry) == cumulative_regrets[entry.regrets_of]

\* lines 202-203
AddStrategy(table, key, rec) ==
    [k \in DOMAIN table \cup {key} |->
        IF k = key
        THEN [counts |-> [a \in Actions |->
                             RAdd(StrategyOf(table, key).counts[a],
                                  RMul(rec.strategy[a], rec.rp_self))],
              visits |-> StrategyOf(table, key).visits + 1]
        ELSE table[k]]

\* line 174
player_reward == final_rewards[training_agent]

\* lines 177-204: the loop body for the record history[idx]
UpdateRegretsStep ==
    /\ pc = "update"
    /\ idx <= Len(history)
    /\ LET rec == history[idx]
           state_key == StateKey(rec.state_tensor)
       IN  /\ cumulative_regrets' =
                  AddRegret(cumulative_regrets, state_key,
                            immediate_regret(player_reward, rec))
           /\ advantage_memory' = DequeAppend(advantage_memory, MemoryEntry(rec))
           /\ cumulative_strategy' = AddStrategy(cumulative_strategy, state_key, rec)
           /\ processed' = processed (+) SetToBag({
                  [rec |-> rec, reward |-> player_reward,
                   delta |-> QVecSub(cumulative_regrets'[state_key],
                                     RegretsOf(cumulative_regrets, state_key))]})
    /\ idx' = idx + 1
    /\ pc' = "update"
    /\ UNCHANGED <<iterations, epsilon, strategy_net, opponent_net, community_card_indices,
                   poker_env, checkpoints,
                   env, history, rp_self, rp_opp, final_rewards, decision,
                   trace, begin, eps_pow, callVars, trainArgs>>

\* the loop of _update_regrets is over; _cfr_iteration returns (line 170)
UpdateRegretsReturn ==
    /\ pc = "update"
    /\ idx > Len(history)
    /\ pc' = "decay"
    /\ UNCHANGED <<trainerVars, handVars, ghostVars, callVars, trainArgs>>

\* the decay without its floor
DecayEpsilonNoFloor(eps) == DecMul(eps, epsilon_decay)

\* line 280
DecayEpsilon(eps) == DecMax(min_epsilon, DecMul(eps, epsilon_decay))

\* _save_checkpoint (lines 293-301): what it writes
Checkpoint == [iteration |-> iterations, epsilon |-> epsilon, strategy_net |-> strategy_net]

\* a checkpoint after every iteration
SaveDueAlways == TRUE

\* line 282
SaveDue == iterations % save_interval = 0

\* lines 280-283: the iteration is complete
DecayStep ==
    /\ pc = "decay"
    /\ epsilon' = DecayEpsilon(epsilon)
    /\ eps_pow' = DecMul(eps_pow, epsilon_decay)
    /\ pc' = "loop"
    /\ UNCHANGED <<iterations, advantage_memory, cumulative_regrets, cumulative_strategy,
                   strategy_net, opponent_net, community_card_indices,
                   poker_env, handVars, trace, processed, begin, callVars, trainArgs>>
    \* lines 282-283, after the decay
    /\ checkpoints' = IF SaveDue
                      THEN Append(checkpoints, Checkpoint')
                      ELSE checkpoints

\* lines 285-286: range(iterations) is exhausted and train returns
FinishTrain ==
    /\ pc = "loop"
    /\ iterations >= train_iterations
    /\ pc' = "done"
    /\ UNCHANGED <<trainerVars, handVars, ghostVars, callVars, trainArgs>>

Next ==
    \/ BeginIteration
    \/ Decide
    \/ DeadStep
    \/ UpdateRegretsStep
    \/ UpdateRegretsReturn
    \/ DecayStep
    \/ FinishTrain

Spec == Init /\ [][Next]_vars

(***************************************************************************)
(* train() with a long run of hands in which the training player takes no  *)
(* decision (player_1 acts first and folds): the behaviours of Spec with   *)
(* these choices of the game, for EpsIterations iterations.                *)
(***************************************************************************)
InitEps ==
    /\ InitTrainer
    /\ train_iterations = EpsIterations
    /\ save_interval = 1000
    /\ pc = "loop"
    /\ policy_call = IdleCall
    /\ strength_call = IdleCall
    /\ encode_call = IdleCall
    /\ net_call = IdleCall

QuietObservation == [cards |-> {0, 1}, chips |-> <<1, 2>>]

NextEps ==
    \/ BeginIteration /\ env'.agent_selection = "player_1"
    \/ Decide /\ decision'.action = 0 /\ env'.rewards[training_agent] = 2
              /\ env'.agent_selection = "player_0"
              /\ trace'[1].p = Rat(1, 3)
    \/ DeadStep
    \/ UpdateRegretsReturn
    \/ DecayStep
    \/ FinishTrain

SpecEps == InitEps /\ [][NextEps]_vars

(***************************************************************************)
(* get_action_probs on its own: every weight vector over 0..MaxWeight and  *)
(* every mask.                                                             *)
(***************************************************************************)
MaxWeight == 2

PolicyInputs ==
    { [pc |-> "call", weights |-> w, legal_mask |-> m] :
        w \in {v \in [Actions -> 0 .. MaxWeight] : \E a \in Actions : v[a] > 0},
        m \in [Actions -> {0, 1}] }

InitPolicy ==
    /\ InitTrainer
    /\ train_iterations = 0
    /\ save_interval = 1
    /\ pc = "idle"
    /\ policy_call \in PolicyInputs
    /\ strength_call = IdleCall
    /\ encode_call = IdleCall
    /\ net_call = IdleCall

\* lines 86-102
PolicyReturn ==
    /\ policy_call.pc = "call"
    /\ policy_call' =
          [pc |-> "return", weights |-> policy_call.weights,
           legal_mask |-> policy_call.legal_mask,
           result |-> get_action_probs(Softmax(policy_call.weights),
                                       policy_call.legal_mask)]
    /\ UNCHANGED <<trainerVars, handVars, ghostVars, strength_call, encode_call,
                   net_call, trainArgs, pc>>

NextPolicy == PolicyReturn

SpecPolicy == InitPolicy /\ [][NextPolicy]_vars

(***************************************************************************)
(* get_strength on its own: every pair of ids of CardIds as hole cards     *)
(* (ids that are no cards among them) and the boards of Boards.            *)
(***************************************************************************)
CardIds == -1 .. 54

HoleInputs ==
    {<<a, b>> : a \in CardIds, b \in CardIds}
        \cup {<<>>, <<5>>, <<1, 2, 3>>, <<-3, 1, 2>>}

Boards ==
    { <<>>, <<0, 0, 0, 0, 0>>, <<9>>, <<9, 13>>, <<9, 13, 17>>,
      <<9, 13, 17, 21, 26>>, <<-1>>, <<60, 0, 0, 0, 0>>, <<53, 13, 17>> }

InitStrength ==
    /\ InitTrainer
    /\ train_iterations = 0
    /\ save_interval = 1
    /\ pc = "idle"
    /\ policy_call = IdleCall
    /\ encode_call = IdleCall
    /\ net_call = IdleCall
    /\ strength_call \in
          { [pc |-> "call", hole_indices |-> h, board_indices |-> b] :
              h \in HoleInputs, b \in Boards }

\* lines 129-147
StrengthReturn ==
    /\ strength_call.pc = "call"
    /\ \E o \in strength_outcomes(strength_call.hole_indices,
                                  strength_call.board_indices) :
         strength_call' =
            [pc |-> "return", hole_indices |-> strength_call.hole_indices,
             board_indices |-> strength_call.board_indices,
             failed |-> o.raised, result |-> StrengthValue(o)]
    /\ UNCHANGED <<trainerVars, handVars, ghostVars, policy_call, encode_call,
                   net_call, trainArgs, pc>>

NextStrength == StrengthReturn

SpecStrength == InitStrength /\ [][NextStrength]_vars

(***************************************************************************)
(* encode_state on its own: observations of several lengths, with card     *)
(* flags that mark no, one, two or more cards, and the boards the wrapper  *)
(* may hold.                                                               *)
(***************************************************************************)
\* lines 55-76: observation[52] and observation[53] raise IndexError on an
\* observation of fewer than 54 entries (first at line 59), and the
\* exception is raised again at line 76; get_strength raises nothing
encode_state_outcomes(observation, board_indices) ==
    IF observation.len < 54 THEN {Raised}
    ELSE {Returned(features) : features \in encode_state(observation, board_indices)}

\* the sets of card flags that are 1
FlagSets == { {}, {0}, {0, 1}, {0, 28}, {0, 1, 8, 12, 16} }

\* the lengths of the observations, 54 the length the game gives
ObservationLengths == {0, 10, 52, 53, 54}

EncodeObservations ==
    { [len |-> n, cards |-> c, chips |-> ch] :
          n \in {54}, c \in FlagSets, ch \in {<<1, 2>>, <<2, 2>>, <<47, 49>>} }
      \cup
    UNION { { [len |-> n, cards |-> c, chips |-> <<0, 0>>] :
                  c \in {f \in FlagSets : \A i \in f : i < n} } :
              n \in ObservationLengths \ {54} }

EncodeBoards == { <<>>, SubSeq(FullBoard, 1, 3), SubSeq(FullBoard, 1, 4), FullBoard }

InitEncode ==
    /\ InitTrainer
    /\ train_iterations = 0
    /\ save_interval = 1
    /\ pc = "idle"
    /\ policy_call = IdleCall
    /\ strength_call = IdleCall
    /\ net_call = IdleCall
    /\ encode_call \in
          { [pc |-> "call", observation |-> o, board_indices |-> b] :
              o \in EncodeObservations, b \in EncodeBoards }

\* lines 53-76, with self.env.community_card_indices as given
EncodeReturn ==
    /\ encode_call.pc = "call"
    /\ \E o \in encode_state_outcomes(encode_call.observation,
                                      encode_call.board_indices) :
         encode_call' =
            [pc |-> "return", observation |-> encode_call.observation,
             board_indices |-> encode_call.board_indices,
             raised |-> o.raised, result |-> o.value]
    /\ UNCHANGED <<trainerVars, handVars, ghostVars, policy_call, strength_call,
                   net_call, trainArgs, pc>>

NextEncode == EncodeReturn

SpecEncode == InitEncode /\ [][NextEncode]_vars

(***************************************************************************)
(* PokerEnv on its own: any sequence of reset() and step() calls of its    *)
(* user, in games of at most EnvDecisions decisions.                       *)
(***************************************************************************)
\* decisions the game allows in one hand in the specification SpecEnv
EnvDecisions == 5

InitEnv ==
    /\ InitTrainer
    /\ train_iterations = 0
    /\ save_interval = 1
    /\ pc = "wrapper"
    /\ policy_call = IdleCall
    /\ strength_call = IdleCall
    /\ encode_call = IdleCall
    /\ net_call = IdleCall

\* PokerEnv.reset (lines 23-29): community_card_indices is not assigned
EnvReset ==
    /\ pc \in {"wrapper", "after_reset", "after_step"}
    /\ \E first \in Agents : env' = NewGame(first)
    /\ poker_env' = reset(poker_env, env')
    /\ pc' = "after_reset"
    /\ UNCHANGED <<iterations, epsilon, advantage_memory, cumulative_regrets,
                   cumulative_strategy, strategy_net, opponent_net,
                   community_card_indices, checkpoints,
                   history, rp_self, rp_opp, final_rewards, decision, idx,
                   ghostVars, callVars, trainArgs>>

\* _log_game_state and _get_obs after the game's step: _get_community_cards
\* reads the public cards and the round from the game (lines 46-51), or an
\* exception of the game's interface leaves both as they were (lines
\* 54-56); _get_obs then reads the pot (line 66)
AfterStep ==
    \E read \in BOOLEAN :
        /\ community_card_indices' =
               IF read THEN env'.public ELSE community_card_indices
        /\ poker_env' = [poker_env EXCEPT
                             !.current_round = IF read THEN round_num(env') ELSE @,
                             !.pot_size = get_pot_size(env')]

\* PokerEnv.step (lines 98-102) with an action for an agent that is not done
EnvStep ==
    /\ pc \in {"after_reset", "after_step"}
    /\ env.agents # {}
    /\ ~env.over
    /\ \E action \in Actions : GameStepWithin(action, EnvDecisions)
    /\ AfterStep
    /\ pc' = "after_step"
    /\ UNCHANGED <<iterations, epsilon, advantage_memory, cumulative_regrets,
                   cumulative_strategy, strategy_net, opponent_net, checkpoints,
                   history, rp_self, rp_opp, final_rewards, decision, idx,
                   ghostVars, callVars, trainArgs>>

\* PokerEnv.step(None) for an agent that is done: the game removes it
EnvStepDone ==
    /\ pc \in {"after_reset", "after_step"}
    /\ env.agents # {}
    /\ env.over
    /\ LET left == env.agents \ {env.agent_selection}
       IN  env' = [env EXCEPT !.agents = left,
                              !.agent_selection =
                                  IF left = {} THEN "none" ELSE CHOOSE a \in left : TRUE]
    /\ AfterStep
    /\ pc' = "after_step"
    /\ UNCHANGED <<iterations, epsilon, advantage_memory, cumulative_regrets,
                   cumulative_strategy, strategy_net, opponent_net, checkpoints,
                   history, rp_self, rp_opp, final_rewards, decision, idx,
                   ghostVars, callVars, trainArgs>>

NextEnv ==
    \/ EnvReset
    \/ EnvStep
    \/ EnvStepDone

SpecEnv == InitEnv /\ [][NextEnv]_vars

(***************************************************************************)
(* train() for one iteration whose hand may last BoardDecisions decisions, *)
(* so that streets are dealt while the players still decide.               *)
(***************************************************************************)
BoardDecisions == 3

InitBoard ==
    /\ InitTrainer
    /\ train_iterations = 1
    /\ save_interval = 1
    /\ pc = "loop"
    /\ policy_call = IdleCall
    /\ strength_call = IdleCall
    /\ encode_call = IdleCall
    /\ net_call = IdleCall

NextBoard ==
    \/ BeginIteration
    \/ DecideWithin(BoardDecisions)
    \/ DeadStep
    \/ UpdateRegretsStep
    \/ UpdateRegretsReturn
    \/ DecayStep
    \/ FinishTrain

SpecBoard == InitBoard /\ [][NextBoard]_vars

(***************************************************************************)
(* train() with _update_strategy_net called between its iterations (the    *)
(* calls of lines 274-275 are commented out; here the method is called at  *)
(* the head of the loop, before, between and after the iterations).        *)
(***************************************************************************)
\* the batch_size arguments
BatchSizes == {1, 2}

\* a network the optimizer step may leave (line 257)
NetC ==
    [t \in StateTensors |->
        IF t[1] = 900 THEN Vec(<<0, 1, 0, 0, 0>>) ELSE Vec(<<1, 1, 0, 0, 0>>)]
TrainedNets == {NetC}

\* every key of the model, in the table or not
AllStateKeys == {StateKey(t) : t \in StateTensors}

\* keys sampled from every state key rather than from the table's keys
SampledKeySetsOfAnyKey(table, batch_size) ==
    {K \in SUBSET AllStateKeys : Cardinality(K) = batch_size}

\* lines 235-241: sample_size distinct keys of the table
SampledKeySets(table, batch_size) ==
    LET keys == DOMAIN table
        sample_size == IF batch_size < Cardinality(keys) THEN batch_size
                       ELSE Cardinality(keys)
    IN  {K \in SUBSET keys : Cardinality(K) = sample_size}

\* the table after self.cumulative_strategy[key] was read for the keys of K
\* (a defaultdict adds the key it is asked for)
ReadStrategy(table, K) == [k \in DOMAIN table \cup K |-> StrategyOf(table, k)]

\* line 246: counts / visits (numpy gives nan or inf on a zero divisor)
average_strategy(entry) == [a \in Actions |-> RDiv(entry.counts[a], Rat(entry.visits, 1))]

\* lines 230-260
UpdateStrategyNet ==
    /\ pc \in {"loop", "done"}
    /\ \E batch_size \in BatchSizes :
         IF DOMAIN cumulative_strategy = {}
         THEN /\ net_call' = [pc |-> "return", batch_size |-> batch_size,
                              sampled_keys |-> {}, targets |-> <<>>,
                              zero_divisor |-> FALSE,
                              keys_before |-> {}, keys_after |-> {}]
              /\ UNCHANGED <<cumulative_strategy, strategy_net>>
         ELSE \E sampled_keys \in SampledKeySets(cumulative_strategy, batch_size),
                 net \in TrainedNets :
              /\ cumulative_strategy' = ReadStrategy(cumulative_strategy, sampled_keys)
              /\ net_call' =
                    [pc |-> "return", batch_size |-> batch_size,
                     sampled_keys |-> sampled_keys,
                     targets |-> [k \in sampled_keys |->
                                    average_strategy(cumulative_strategy'[k])],
                     zero_divisor |-> \E k \in sampled_keys :
                                        cumulative_strategy'[k].visits = 0,
                     keys_before |-> DOMAIN cumulative_strategy,
                     keys_after |-> DOMAIN cumulative_strategy']
              /\ strategy_net' = net
    /\ UNCHANGED <<iterations, epsilon, advantage_memory, cumulative_regrets,
                   opponent_net, community_card_indices, poker_env, checkpoints,
                   handVars, ghostVars, policy_call, strength_call, encode_call,
                   trainArgs, pc>>

InitNet ==
    /\ InitTrainer
    /\ train_iterations = MaxIterations
    /\ save_interval = 1
    /\ pc = "loop"
    /\ policy_call = IdleCall
    /\ strength_call = IdleCall
    /\ encode_call = IdleCall
    /\ net_call = IdleCall

NextNet ==
    \/ BeginIteration
    \/ Decide
    \/ DeadStep
    \/ UpdateRegretsStep
    \/ UpdateRegretsReturn
    \/ DecayStep
    \/ FinishTrain
    \/ UpdateStrategyNet

SpecNet == InitNet /\ [][NextNet]_vars

(***************************************************************************)
(* The claims.                                                             *)
(***************************************************************************)
LegalActions(legal_mask) == {a \in Actions : legal_mask[a] = 1}

\* C1: for every score vector and every mask with a legal action,
\* get_action_probs returns a vector that sums to 1 and is 0 on every
\* illegal action; when the softmax mass on the legal actions is zero the
\* result is the uniform distribution over the legal actions.
C1_ActionProbsAreADistribution ==
    (policy_call.pc = "return" /\ LegalActions(policy_call.legal_mask) # {}) =>
        LET legal == LegalActions(policy_call.legal_mask)
            result == policy_call.result
        IN  /\ VSum(result) = One
            /\ \A a \in Actions \ legal : result[a] = Zero
            /\ \A a \in Actions : ~RLess(result[a], Zero)
            /\ (\A a \in legal : policy_call.weights[a] = 0) =>
                   \A a \in legal : result[a] = Rat(1, Cardinality(legal))

\* the fallback case: all the softmax mass lies on illegal actions
C1_Witness ==
    /\ policy_call.pc = "return"
    /\ Cardinality(LegalActions(policy_call.legal_mask)) = 2
    /\ \A a \in LegalActions(policy_call.legal_mask) : policy_call.weights[a] = 0
    /\ \A a \in LegalActions(policy_call.legal_mask) : policy_call.result[a] = Rat(1, 2)

\* C2: for an all-zero mask every path by which the training loop gets a
\* distribution (get_action_probs for either player, the exploration
\* branch for the training player) yields the fallback get_action_probs
\* documents (the mask itself), with no division by zero and no NaN.
C2_ZeroMaskYieldsFallback ==
    (decision.agent \in Agents /\ decision.action = -1 /\ pc = "failed"
        /\ LegalActions(decision.legal_mask) = {}) =>
        /\ \A a \in Actions : ~IsNaN(decision.strategy[a])
        /\ decision.strategy = MaskVec(decision.legal_mask)

\* C3: the replay buffer never holds more than Capacity entries; an append
\* to a full buffer removes exactly the oldest entry, keeps the others in
\* their order, puts the new entry last and leaves the size at Capacity;
\* nothing but the append of _update_regrets changes the buffer.
C3_BufferIsBoundedFifo ==
    /\ [](Len(advantage_memory) <= Capacity)
    /\ [][ /\ (advantage_memory' # advantage_memory) => (pc = "update" /\ idx' = idx + 1)
           /\ (pc = "update" /\ idx' = idx + 1 /\ Len(advantage_memory) = Capacity) =>
                 /\ Len(advantage_memory') = Capacity
                 /\ \A i \in 1 .. Capacity - 1 :
                        advantage_memory'[i] = advantage_memory[i + 1]
                 /\ advantage_memory'[Capacity] = MemoryEntry(history[idx]) ]_vars

\* more records have been appended than the buffer holds
C3_Witness ==
    /\ Len(advantage_memory) = Capacity
    /\ BagCardinality(processed) > Capacity
    /\ advantage_memory[Capacity] = MemoryEntry(history[idx - 1])

\* the decisions of the training player in the hand so far
TrainingDecisions(tr) == {i \in DOMAIN tr : tr[i].agent = training_agent}

\* the last n entries of a sequence
LastN(sq, n) ==
    IF Len(sq) <= n THEN sq ELSE SubSeq(sq, Len(sq) - n + 1, Len(sq))

\* the entries _update_regrets appends for the first n records
EntriesOf(hist, n) == [i \in 1 .. n |-> MemoryEntry(hist[i])]

\* what the first n passes of the loop of _update_regrets must have done
UpdatedBy(n) ==
    /\ BagCardinality(processed) = begin.processed + n
    /\ TotalVisits(cumulative_strategy) = begin.visits + n
    /\ advantage_memory = LastN(begin.memory \o EntriesOf(history, n), Capacity)

\* C4: in an iteration with k decisions of the training player the
\* trajectory has k records (the opponent's decisions add none); nothing is
\* updated while the hand is played; _update_regrets then makes one
\* regret addition, one buffer append and one visit increment per record,
\* in trajectory order, k of each when the iteration is complete.
C4_OneUpdatePerRecord ==
    /\ pc \in {"hand", "update", "decay"} =>
           Len(history) = Cardinality(TrainingDecisions(trace))
    /\ pc = "hand" => UpdatedBy(0)
    /\ pc = "update" => UpdatedBy(idx - 1)
    /\ pc = "decay" => UpdatedBy(Cardinality(TrainingDecisions(trace)))

\* the training player acts first and folds: k = 1
C4_Witness ==
    /\ pc = "decay"
    /\ Len(trace) = 1
    /\ trace[1].agent = training_agent
    /\ Len(history) = 1
    /\ history[1].action = 0
    /\ BagCardinality(processed) = begin.processed + 1

\* C5: after n completed iterations epsilon is max(0.01, 0.15 * 0.995^n)
\* (eps_pow is 0.15 * 0.995^n: n exact multiplications, each one limb
\* longer); epsilon changes only in the decay that completes an
\* iteration, never increases and is never below 0.01.
C5_EpsilonClosedForm ==
    /\ [](/\ pc \in {"loop", "done"} =>
                /\ Len(eps_pow) = iterations + 1
                /\ epsilon = DecMax(min_epsilon, eps_pow)
          /\ ~DecLess(epsilon, min_epsilon))
    /\ [][ /\ ~DecLess(epsilon, epsilon')
           /\ (epsilon' # epsilon) => (pc = "decay" /\ pc' = "loop") ]_vars

\* the floor has been reached: 0.15 * 0.995^n is below 0.01
C5_Witness ==
    /\ pc = "loop"
    /\ iterations > 0
    /\ DecLess(eps_pow, min_epsilon)
    /\ epsilon = min_epsilon

\* C6: the change _update_regrets makes to the regret table for a record
\* depends on the record and the training player's reward alone: whenever
\* the same record is processed with the same reward (in another
\* iteration, with another epsilon, buffer and strategy table) the table
\* changes by the same vector.
C6_SameRecordSameDelta ==
    \A x, y \in BagToSet(processed) :
        (x.rec = y.rec /\ x.reward = y.reward) => x.delta = y.delta

\* a record processed in both iterations with the same reward and a
\* change that is not zero
C6_Witness ==
    /\ iterations = 2
    /\ \E x \in BagToSet(processed) :
          /\ CopiesIn(x, processed) = 2
          /\ x.delta # QZeroVec

\* the vector the claim gives for a record and a reward:
\* v = r * reachOpp / (reachSelf + 1e-8), entry c is v * (1 - p[c]) and
\* every other entry a is -v * p[a]
ClaimedRegret(x) ==
    LET v == EpsSafeQuot(RMul(Rat(x.reward, 1), x.rec.rp_opp), x.rec.rp_self)
        p == x.rec.strategy
        c == x.rec.action
    IN  [a \in Actions |->
            IF a = c THEN QSub(v, QScale(v, p[c])) ELSE QNeg(QScale(v, p[a]))]

\* the sum of the claimed vectors over the processed records of a key,
\* each as often as it was processed
RECURSIVE ClaimedSum(_, _)
ClaimedSum(X, key) ==
    IF X = {} THEN QZeroVec
    ELSE LET x == CHOOSE e \in X : TRUE
             rest == ClaimedSum(X \ {x}, key)
         IN  IF StateKey(x.rec.state_tensor) # key THEN rest
             ELSE [a \in Actions |->
                     QAdd(rest[a],
                          QScale(ClaimedRegret(x)[a], Rat(CopiesIn(x, processed), 1)))]

\* C7: every record changes the table entry of its key by the vector of
\* the claim, and at every moment the value stored for a key is the sum of
\* these vectors over all the records ever processed for the key (the
\* table is never reset); keys without a record are not in the table.
C7_TableIsSumOfRegrets ==
    /\ \A x \in BagToSet(processed) : x.delta = ClaimedRegret(x)
    /\ DOMAIN cumulative_regrets =
          {StateKey(x.rec.state_tensor) : x \in BagToSet(processed)}
    /\ \A key \in DOMAIN cumulative_regrets :
          cumulative_regrets[key] = ClaimedSum(BagToSet(processed), key)

\* a key with records of both iterations and a stored value that is not zero
C7_Witness ==
    /\ iterations = 2
    /\ pc = "decay"
    /\ begin.processed > 0
    /\ \E key \in DOMAIN cumulative_regrets :
          /\ cumulative_regrets[key] # QZeroVec
          /\ cumulative_strategy[key].visits >= 3

\* the product of the chosen-action probabilities of an agent's decisions
\* among the first n of the hand
RECURSIVE ReachOf(_, _, _)
ReachOf(tr, agents, n) ==
    IF n = 0 THEN One
    ELSE IF tr[n].agent \in agents THEN RMul(ReachOf(tr, agents, n - 1), tr[n].p)
    ELSE ReachOf(tr, agents, n - 1)

\* the place in the hand of the i-th decision of the training player
PlaceOf(tr, i) ==
    CHOOSE n \in TrainingDecisions(tr) :
        Cardinality({m \in TrainingDecisions(tr) : m <= n}) = i

\* C8: in a hand both reach probabilities start at 1; rp_self is the
\* product of the chosen-action probabilities of the training player's
\* decisions so far and rp_opp that of the opponent's; each record holds
\* the two products as they were before its decision (the first record
\* has rp_self = 1).
C8_ReachProbabilities ==
    pc \in {"hand", "update", "decay"} =>
        /\ rp_self = ReachOf(trace, {training_agent}, Len(trace))
        /\ rp_opp = ReachOf(trace, Agents \ {training_agent}, Len(trace))
        /\ Len(history) = Cardinality(TrainingDecisions(trace))
        /\ \A i \in DOMAIN history :
              LET n == PlaceOf(trace, i)
              IN  /\ trace[n].p = history[i].strategy[history[i].action]
                  /\ history[i].rp_self = ReachOf(trace, {training_agent}, n - 1)
                  /\ history[i].rp_opp = ReachOf(trace, Agents \ {training_agent}, n - 1)
        /\ Len(history) > 0 => history[1].rp_self = One

\* a second record of a hand whose first decision had probability below 1
C8_Witness ==
    /\ pc = "hand"
    /\ Len(history) = 2
    /\ history[1].rp_self = One
    /\ history[2].rp_self = history[1].strategy[history[1].action]
    /\ history[2].rp_self # One
    /\ rp_self = RMul(history[2].rp_self, history[2].strategy[history[2].action])

\* the ids of cards, and the rank and the suit of the card with an id
IsCardId(i) == i \in 1 .. 52
RankOfId(i) == (i - 1) \div 4
SuitOfId(i) == (i - 1) % 4

\* the value the claim gives for two hole cards before the flop
ClaimedPreflop(c1, c2) ==
    LET adjacent == RankOfId(c1) - RankOfId(c2) \in {1, -1}
        suited == SuitOfId(c1) = SuitOfId(c2)
    IN  IF RankOfId(c1) = RankOfId(c2) THEN 900
        ELSE IF adjacent /\ suited THEN 700
        ELSE IF adjacent THEN 600
        ELSE IF suited THEN 500
        ELSE 400

CardsOnBoard(board) == {i \in DOMAIN board : board[i] # 0}

\* C9: for two distinct valid hole cards and a board of fewer than 3
\* cards get_strength returns 0.9 for a pair, else 0.7 for a suited
\* connector, else 0.6 for a connector, else 0.5 for suited cards, else
\* 0.4, whatever the order of the two hole cards.
C9_PreflopStrength ==
    LET hole == strength_call.hole_indices
        board == strength_call.board_indices
    IN  ( /\ strength_call.pc = "return"
          /\ Len(hole) = 2
          /\ IsCardId(hole[1]) /\ IsCardId(hole[2]) /\ hole[1] # hole[2]
          /\ \A i \in CardsOnBoard(board) : IsCardId(board[i])
          /\ Cardinality(CardsOnBoard(board)) < 3 ) =>
            /\ ~strength_call.failed
            /\ strength_call.result = ClaimedPreflop(hole[1], hole[2])
            /\ get_strength(<<hole[2], hole[1]>>, board) = {strength_call.result}

\* a suited connector given with the higher card first, two board cards
C9_Witness ==
    /\ strength_call.pc = "return"
    /\ strength_call.hole_indices = <<5, 1>>
    /\ strength_call.board_indices = <<9, 13>>
    /\ strength_call.result = 700

\* C10: when some hole or board id lies outside 0..52 the evaluation fails
\* and get_strength returns 0.0 (the id is not dropped or coerced).
C10_InvalidIdFails ==
    LET hole == strength_call.hole_indices
        board == strength_call.board_indices
    IN  ( /\ strength_call.pc = "return"
          /\ \/ \E i \in DOMAIN hole : hole[i] \notin 0 .. 52
             \/ \E i \in DOMAIN board : board[i] \notin 0 .. 52 ) =>
            /\ strength_call.failed
            /\ strength_call.result = 0

\* C11: encode_state fails, and returns no feature pair, when the
\* observation is too short for the 52 card flags and the two chip entries
\* and when its card flags mark fewer than two cards.
C11_MalformedObservationFails ==
    LET observation == encode_call.observation
    IN  ( /\ encode_call.pc = "return"
          /\ \/ observation.len < 54
             \/ Cardinality(observation.cards) < 2 ) =>
            encode_call.raised

\* C12: after PokerEnv.reset(), whatever reset and step calls came before,
\* the wrapper is in the initial state of a hand: current_round is 0, the
\* history is empty, pot_size is that of the new hand, and
\* community_card_indices is empty (no board card of an earlier hand).
C12_ResetClearsTheBoard ==
    pc = "after_reset" =>
        /\ poker_env.current_round = 0
        /\ poker_env.history = <<>>
        /\ poker_env.pot_size = get_pot_size(env)
        /\ community_card_indices = <<>>

\* C13: an error raised inside one training iteration aborts that iteration
\* only; train never ends by the error (pc = "failed" is train having
\* raised it again at line 290), so the remaining iterations are run.
C13_ErrorAbortsIterationOnly == pc # "failed"

\* C14: at every decision point of _cfr_iteration the board encode_state
\* passes to get_strength is the public cards of the game at that moment
\* (so with 3 or more public cards the strength is the post-flop one).
C14_BoardIsThePublicCards ==
    (decision.agent \in Agents /\ ~decision.done) =>
        decision.board_indices = decision.public

\* C15: every action _cfr_iteration passes to the game's step for a player
\* that is not done is legal under the mask of that decision point, for the
\* training player (exploring or not) and for the opponent, whenever the
\* mask has a legal action; a player that is done is stepped with None.
C15_SteppedActionsAreLegal ==
    decision.agent \in Agents =>
        IF decision.done THEN decision.action = -1
        ELSE LegalActions(decision.legal_mask) # {} =>
                /\ pc # "failed"
                /\ decision.action \in LegalActions(decision.legal_mask)

\* the opponent took the second of two legal actions, the network giving
\* weight to an illegal third one
C15_Witness ==
    /\ decision.agent = "player_1"
    /\ ~decision.done
    /\ decision.action = 1
    /\ LegalActions(decision.legal_mask) = {0, 1}
    /\ decision.strategy[1] = Rat(2, 3)
    /\ pc = "hand"

\* where the i-th entry of the replay buffer is after a step (0: dropped)
PlaceAfter(i) ==
    IF advantage_memory' = advantage_memory THEN i
    ELSE IF Len(advantage_memory') = Len(advantage_memory) + 1 THEN i
    ELSE i - 1

\* C16: no operation changes the regret vector of an entry that is in the
\* replay buffer: a later regret update, for the same state key too, leaves
\* what every entry already in the buffer shows as it was.
C16_BufferEntriesAreFrozen ==
    [][ \A i \in DOMAIN advantage_memory :
            PlaceAfter(i) >= 1 =>
                /\ advantage_memory'[PlaceAfter(i)].state = advantage_memory[i].state
                /\ cumulative_regrets'[advantage_memory'[PlaceAfter(i)].regrets_of]
                       = EntryRegrets(advantage_memory[i]) ]_vars

\* the records _update_regrets has processed for a state key
RECURSIVE CopiesOver(_, _)
CopiesOver(B, S) ==
    IF S = {} THEN 0
    ELSE LET e == CHOOSE x \in S : TRUE
         IN  CopiesIn(e, B) + CopiesOver(B, S \ {e})
ProcessedFor(key) ==
    CopiesOver(processed,
               {e \in BagToSet(processed) : StateKey(e.rec.state_tensor) = key})

\* C17: after any sequence of training iterations and strategy-network
\* updates every key of the strategy table has visits >= 1, equal to the
\* number of records ever processed for the key; _update_strategy_net never
\* divides by zero and adds no key to the table.
C17_VisitsArePositive ==
    /\ \A key \in DOMAIN cumulative_strategy :
          /\ cumulative_strategy[key].visits >= 1
          /\ cumulative_strategy[key].visits = ProcessedFor(key)
    /\ net_call.pc = "return" =>
          /\ ~net_call.zero_divisor
          /\ net_call.keys_after = net_call.keys_before

\* an update that sampled one of two keys of the table, one visited twice
C17_Witness ==
    /\ net_call.pc = "return"
    /\ Cardinality(net_call.sampled_keys) = 1
    /\ Cardinality(DOMAIN cumulative_strategy) = 2
    /\ \E key \in net_call.sampled_keys :
          /\ cumulative_strategy[key].visits = 2
          /\ VSum(net_call.targets[key]) = Rat(3, 4)

\* C18: a checkpoint is written only at an iteration boundary: after the
\* hand of iteration i has ended, its regret update is complete and epsilon
\* is decayed for iteration i, and only when i is a multiple of
\* save_interval; it records iteration = i and epsilon after i decays; the
\* iteration counter grows by exactly one per iteration.
C18_CheckpointAtIterationBoundary ==
    /\ [][ checkpoints' # checkpoints =>
             /\ pc = "decay" /\ pc' = "loop"
             /\ env.agents = {} /\ idx > Len(history)
             /\ iterations % save_interval = 0
             /\ epsilon' = DecMax(min_epsilon, eps_pow')
             /\ checkpoints' = Append(checkpoints,
                                      [iteration |-> iterations, epsilon |-> epsilon',
                                       strategy_net |-> strategy_net]) ]_vars
    /\ [][ iterations' # iterations =>
             /\ pc = "loop" /\ pc' = "hand"
             /\ iterations' = iterations + 1 ]_vars
    /\ [][ (pc = "decay" /\ pc' = "loop" /\ iterations % save_interval = 0) =>
             checkpoints' # checkpoints ]_vars

\* with save_interval = 2 the only checkpoint is that of iteration 2
C18_Witness ==
    /\ save_interval = 2
    /\ Len(checkpoints) = 1
    /\ checkpoints[1].iteration = 2
    /\ checkpoints[1].epsilon = DecMul(DecMul(epsilon_init, epsilon_decay), epsilon_decay)
    /\ pc = "done"

====
